---------------------------- MODULE Spec2Model ----------------------------
(***************************************************************************)
(* A model of the analysis core of rust-architecture-visualizer:           *)
(*   scanner/rust_scanner.rs        file selection, extraction, scan       *)
(*   scanner/dependency_analyzer.rs edge assembly and cycle search         *)
(*   scanner/metrics_calculator.rs  whole-graph metrics                    *)
(*                                                                         *)
(* Strings are sequences of one-character strings, so that substring,      *)
(* file-stem, extension and glob matching are computed and not assumed.    *)
(* A HashMap is a function together with an iteration order that is chosen *)
(* anew for every map that is built (std's RandomState).                   *)
(***************************************************************************)
EXTENDS Integers, Sequences, FiniteSets, TLC

(***************************************************************************)
(* Bounds of the exploration.                                              *)
(***************************************************************************)
\* Total number of dependency references (use/mod lines) in the directory.
MaxRefs == 4
\* The same for a directory that is scanned more than once.
RescanRefs == 2
\* Total number of irregularities (oversized, unreadable, failed metadata
\* read) spread over the directory entries.
MaxFaults == 2
\* Number of scans of the same directory that are compared.
MaxScans == 2
\* Number of clients of the serving layer, each sending one request.
MaxClients == 3

(***************************************************************************)
(* Sequence helpers.                                                       *)
(***************************************************************************)
Range(s) == {s[i] : i \in DOMAIN s}

Perms(S) == {p \in [1..Cardinality(S) -> S] : \A i, j \in DOMAIN p : p[i] = p[j] => i = j}

RECURSIVE SumSeq(_)
SumSeq(s) == IF s = <<>> THEN 0 ELSE Head(s) + SumSeq(Tail(s))

RECURSIVE Concat(_)
Concat(ss) == IF ss = <<>> THEN <<>> ELSE Head(ss) \o Concat(Tail(ss))

\* All sequences over S of length at most n.
SeqsUpTo(S, n) == UNION {[1..k -> S] : k \in 0..n}

\* str.contains(sub)
Contains(s, sub) ==
    \E i \in 1..(Len(s) - Len(sub) + 1) : SubSeq(s, i, i + Len(sub) - 1) = sub

\* Index of the last occurrence of character c in s, 0 when absent.
LastIndexOf(s, c) ==
    IF \E i \in DOMAIN s : s[i] = c
    THEN CHOOSE i \in DOMAIN s : s[i] = c /\ \A j \in DOMAIN s : s[j] = c => j <= i
    ELSE 0

(***************************************************************************)
(* std::path: the last component, its extension and its stem.              *)
(***************************************************************************)
FileName(path) == SubSeq(path, LastIndexOf(path, "/") + 1, Len(path))

\* Path::extension: the part of the file name after its last '.', None
\* (here <<>>) when there is no '.' or the name starts with its only '.'.
Extension(path) ==
    LET n == FileName(path)
        d == LastIndexOf(n, ".")
    IN IF d <= 1 THEN <<>> ELSE SubSeq(n, d + 1, Len(n))

\* Path::file_stem: the file name without its extension.
FileStem(path) ==
    LET n == FileName(path)
        d == LastIndexOf(n, ".")
    IN IF d <= 1 THEN n ELSE SubSeq(n, 1, d - 1)

(***************************************************************************)
(* glob::Pattern as used by should_exclude_file / should_include_file      *)
(* (default MatchOptions: separators and leading dots are not special).    *)
(* Tokens: a literal character, or one of the three wildcards.             *)
(***************************************************************************)
AnyChar == "<?>"
AnySequence == "<*>"
AnyRecursiveSequence == "<**>"

\* Number of consecutive '*' at the head of s.
RECURSIVE StarRun(_)
StarRun(s) == IF s # <<>> /\ Head(s) = "*" THEN 1 + StarRun(Tail(s)) ELSE 0

\* Pattern::new: chars is the pattern text, i the next position (1-based),
\* tokens what has been parsed so far.  Yields [ok, tokens].
RECURSIVE PatternParse(_, _, _)
PatternParse(chars, i, tokens) ==
    IF i > Len(chars) THEN [ok |-> TRUE, tokens |-> tokens]
    ELSE IF chars[i] = "?" THEN PatternParse(chars, i + 1, Append(tokens, AnyChar))
    ELSE IF chars[i] = "*" THEN
        LET count == StarRun(SubSeq(chars, i, Len(chars)))
            j == i + count
        IN IF count > 2 THEN [ok |-> FALSE, tokens |-> <<>>]
           ELSE IF count = 2 THEN
               IF i = 1 \/ chars[i - 1] = "/" THEN
                   IF j <= Len(chars) /\ chars[j] = "/"
                   THEN PatternParse(chars, j + 1,
                            IF Len(tokens) > 1 /\ tokens[Len(tokens)] = AnyRecursiveSequence
                            THEN tokens ELSE Append(tokens, AnyRecursiveSequence))
                   ELSE IF j > Len(chars)
                   THEN PatternParse(chars, j,
                            IF Len(tokens) > 1 /\ tokens[Len(tokens)] = AnyRecursiveSequence
                            THEN tokens ELSE Append(tokens, AnyRecursiveSequence))
                   ELSE [ok |-> FALSE, tokens |-> <<>>]
               ELSE [ok |-> FALSE, tokens |-> <<>>]
           ELSE PatternParse(chars, j, Append(tokens, AnySequence))
    ELSE PatternParse(chars, i + 1, Append(tokens, chars[i]))

PatternNew(pattern) == PatternParse(pattern, 1, <<>>)

\* Pattern::matches_from: "Match", "SubPatternDoesntMatch" or
\* "EntirePatternDoesntMatch".
RECURSIVE MatchesFrom(_, _, _, _), MatchesSeqLoop(_, _, _, _, _)
MatchesFrom(follows_separator, file, tokens, ti) ==
    IF ti > Len(tokens)
    THEN (IF file = <<>> THEN "Match" ELSE "SubPatternDoesntMatch")
    ELSE IF tokens[ti] \in {AnySequence, AnyRecursiveSequence} THEN
        LET m == MatchesFrom(follows_separator, file, tokens, ti + 1)
        IN IF m # "SubPatternDoesntMatch" THEN m
           ELSE MatchesSeqLoop(tokens[ti], follows_separator, file, tokens, ti)
    ELSE IF file = <<>> THEN "EntirePatternDoesntMatch"
    ELSE IF tokens[ti] = AnyChar \/ tokens[ti] = Head(file)
         THEN MatchesFrom(Head(file) = "/", Tail(file), tokens, ti + 1)
         ELSE "SubPatternDoesntMatch"

\* The `while let Some(c) = file.next()` loop of a wildcard token.
MatchesSeqLoop(token, follows_separator, file, tokens, ti) ==
    IF file = <<>> THEN MatchesFrom(follows_separator, file, tokens, ti + 1)
    ELSE LET sep == (Head(file) = "/")
         IN IF token = AnyRecursiveSequence /\ ~sep
            THEN MatchesSeqLoop(token, sep, Tail(file), tokens, ti)
            ELSE LET m == MatchesFrom(sep, Tail(file), tokens, ti + 1)
                 IN IF m # "SubPatternDoesntMatch" THEN m
                    ELSE MatchesSeqLoop(token, sep, Tail(file), tokens, ti)

\* glob::Pattern::new(pattern).map(|p| p.matches(path)).unwrap_or(false)
GlobMatches(pattern, path) ==
    LET p == PatternNew(pattern)
    IN p.ok /\ MatchesFrom(TRUE, path, p.tokens, 1) = "Match"


(***************************************************************************)
(* The scanned directory and the configuration.                            *)
(*                                                                         *)
(* A directory entry is a file below the scan root:                        *)
(*   path        its path as WalkDir yields it                             *)
(*   size        metadata.len()                                            *)
(*   readable    whether tokio::fs::read_to_string succeeds                *)
(*   metaSelOk   outcome of the std::fs::metadata call of find_rust_files  *)
(*   metaParseOk outcome of the std::fs::metadata call of parse_rust_file  *)
(*   uses        the captures of `use crate::([^;]+)` in the content       *)
(*   mods        the captures of `mod\s+(\w+)` in the content              *)
(*   words       the marker words the content contains                     *)
(*   loc         the content's count of code lines                         *)
(*   counts      the number of occurrences of each literal the metrics     *)
(*               calculator searches for                                   *)
(***************************************************************************)
None == [some |-> FALSE, value |-> 0]
Some(v) == [some |-> TRUE, value |-> v]

RS == <<"r", "s">>

\* The directory whose files reference one another: a.rs, b.rs and c.rs.
\* Three nodes carry every cycle shape of interest: a self-loop, a 2-cycle,
\* a 3-cycle, and a cycle with a tail or a chord.
GraphPaths == <<(<<"a", ".">> \o RS), (<<"b", ".">> \o RS), (<<"c", ".">> \o RS)>>
GraphFiles == DOMAIN GraphPaths
\* The module names a reference may mention: the stems of those files.
Names == {FileStem(GraphPaths[i]) : i \in GraphFiles}

\* ScanningSettings of a configuration without patterns and size limit.
PlainConfig == [exclude_patterns |-> <<>>, include_patterns |-> <<>>, max_file_size |-> None]

(***************************************************************************)
(* ArchitectureScanner: file selection.                                    *)
(***************************************************************************)
\* should_exclude_file
should_exclude_file(cfg, path) ==
    \E k \in DOMAIN cfg.exclude_patterns : GlobMatches(cfg.exclude_patterns[k], path)

\* should_include_file
should_include_file(cfg, path) ==
    \/ cfg.include_patterns = <<>>
    \/ \E k \in DOMAIN cfg.include_patterns : GlobMatches(cfg.include_patterns[k], path)

\* The size check of find_rust_files: a file is skipped only when the limit
\* is set, the metadata read succeeds and the length exceeds the limit.
TooLarge(cfg, e) ==
    /\ cfg.max_file_size.some
    /\ e.metaSelOk
    /\ e.size > cfg.max_file_size.value

\* Mutant of IsSelected: a match of an include pattern admits the file
\* before the exclude patterns are looked at.
IsSelectedIncludeFirst(cfg, e) ==
    /\ Extension(e.path) = RS
    /\ \/ (cfg.include_patterns # <<>> /\ should_include_file(cfg, e.path))
       \/ (~should_exclude_file(cfg, e.path) /\ should_include_file(cfg, e.path))
    /\ ~TooLarge(cfg, e)

\* The body of the loop of find_rust_files for one walked entry.
IsSelected(cfg, e) ==
    /\ Extension(e.path) = RS
    /\ ~should_exclude_file(cfg, e.path)
    /\ should_include_file(cfg, e.path)
    /\ ~TooLarge(cfg, e)

\* WalkDir::new(root).into_iter().filter_map(|e| e.ok()): the entries in walk
\* order; the error entry of a missing or unreadable root is dropped.
WalkDir(d) == IF d.rootOk THEN [i \in 1..Len(d.entries) |-> i] ELSE <<>>

RECURSIVE FilterSelected(_, _, _)
FilterSelected(cfg, d, walk) ==
    IF walk = <<>> THEN <<>>
    ELSE (IF IsSelected(cfg, d.entries[Head(walk)]) THEN <<Head(walk)>> ELSE <<>>)
         \o FilterSelected(cfg, d, Tail(walk))

\* find_rust_files: always Ok(files); files are indices of directory entries.
find_rust_files(cfg, d) == FilterSelected(cfg, d, WalkDir(d))

(***************************************************************************)
(* ArchitectureScanner: fact extraction.                                   *)
(***************************************************************************)
\* extract_module_name: the first `mod` declaration, else the file stem.
extract_module_name(e) == IF e.mods # <<>> THEN Head(e.mods) ELSE FileStem(e.path)

\* extract_dependencies: all `use crate::` captures, then all `mod` captures.
extract_dependencies(e) == e.uses \o e.mods

\* str::to_lowercase on the characters paths are built from.
LowerChar(c) ==
    CASE c = "T" -> "t" [] c = "A" -> "a" [] c = "P" -> "p" [] c = "I" -> "i" [] OTHER -> c
ToLower(s) == [i \in DOMAIN s |-> LowerChar(s[i])]

HasAny(s, subs) == \E sub \in subs : Contains(s, sub)

\* determine_module_type with the content patterns looked at before the path.
determine_module_type_content_first(e) ==
    LET p == ToLower(e.path)
        w == e.words
    IN IF "async" \in w /\ "tokio" \in w THEN "Execution"
       ELSE IF "serde" \in w /\ "Serialize" \in w THEN "DataProcessing"
       ELSE IF "trait" \in w /\ "async" \in w THEN "Integration"
       ELSE IF HasAny(p, {<<"t","e","s","t">>}) THEN "Testing"
       ELSE IF HasAny(p, {<<"e","x","a","m","p","l","e">>}) THEN "Utilities"
       ELSE IF HasAny(p, {<<"b","e","n","c","h">>}) THEN "Performance"
       ELSE IF HasAny(p, {<<"c","o","n","f","i","g">>, <<"s","e","t","t","i","n","g","s">>})
            THEN "Configuration"
       ELSE IF HasAny(p, {<<"a","p","i">>, <<"r","o","u","t","e","s">>}) THEN "API"
       ELSE IF HasAny(p, {<<"d","b">>, <<"d","a","t","a","b","a","s","e">>}) THEN "Database"
       ELSE IF HasAny(p, {<<"n","e","t","w","o","r","k">>, <<"n","e","t">>}) THEN "Network"
       ELSE IF HasAny(p, {<<"a","u","t","h">>, <<"s","e","c","u","r","i","t","y">>})
            THEN "Security"
       ELSE IF HasAny(p, {<<"l","o","g">>}) THEN "Logging"
       ELSE IF HasAny(p, {<<"m","o","n","i","t","o","r">>, <<"m","e","t","r","i","c","s">>})
            THEN "Monitoring"
       ELSE "Core"

\* determine_module_type
determine_module_type(e) ==
    LET p == ToLower(e.path)
        w == e.words
    IN IF HasAny(p, {<<"t","e","s","t">>}) THEN "Testing"
       ELSE IF HasAny(p, {<<"e","x","a","m","p","l","e">>}) THEN "Utilities"
       ELSE IF HasAny(p, {<<"b","e","n","c","h">>}) THEN "Performance"
       ELSE IF HasAny(p, {<<"c","o","n","f","i","g">>, <<"s","e","t","t","i","n","g","s">>})
            THEN "Configuration"
       ELSE IF HasAny(p, {<<"a","p","i">>, <<"r","o","u","t","e","s">>}) THEN "API"
       ELSE IF HasAny(p, {<<"d","b">>, <<"d","a","t","a","b","a","s","e">>}) THEN "Database"
       ELSE IF HasAny(p, {<<"n","e","t","w","o","r","k">>, <<"n","e","t">>}) THEN "Network"
       ELSE IF HasAny(p, {<<"a","u","t","h">>, <<"s","e","c","u","r","i","t","y">>})
            THEN "Security"
       ELSE IF HasAny(p, {<<"l","o","g">>}) THEN "Logging"
       ELSE IF HasAny(p, {<<"m","o","n","i","t","o","r">>, <<"m","e","t","r","i","c","s">>})
            THEN "Monitoring"
       ELSE IF "async" \in w /\ "tokio" \in w THEN "Execution"
       ELSE IF "serde" \in w /\ "Serialize" \in w THEN "DataProcessing"
       ELSE IF "trait" \in w /\ "async" \in w THEN "Integration"
       ELSE IF "struct" \in w /\ "impl" \in w THEN "Core"
       ELSE "Core"

(***************************************************************************)
(* MetricsCalculator::calculate_node_metrics.  The text of a file is       *)
(* known by its number of code lines (loc) and by the number of times each *)
(* literal the calculator searches for occurs in it (counts).  Scores with *)
(* one decimal are kept in tenths.                                         *)
(***************************************************************************)
Literals ==
    {"if ", "match ", "for ", "while ", "loop ", "{{", "async", "?.",
     "unwrap()", "expect(", "fn ", "struct ", "enum ", "trait "}

NoLiterals == [t \in Literals |-> 0]

\* calculate_complexity, in tenths.
calculate_complexity(e) ==
    10 + 5 * e.counts["if "] + 8 * e.counts["match "] + 6 * e.counts["for "]
       + 7 * e.counts["while "] + 8 * e.counts["loop "] + e.counts["{{"]
       + (IF e.counts["async"] > 0 THEN 5 ELSE 0)
       + 2 * e.counts["?."] + e.counts["unwrap()"] + e.counts["expect("]

\* The NodeMetrics record (the fields the whole-graph metrics read).
calculate_node_metrics(e) ==
    [lines_of_code |-> e.loc,
     complexity_score |-> calculate_complexity(e),
     function_count |-> e.counts["fn "],
     struct_count |-> e.counts["struct "],
     enum_count |-> e.counts["enum "],
     trait_count |-> e.counts["trait "],
     dependency_count |-> 0,
     dependent_count |-> 0]

\* What parse_rust_file returns for a readable file: the node with a fresh id.
MakeNode(e, id) ==
    [id |-> id,
     name |-> extract_module_name(e),
     module_type |-> determine_module_type(e),
     file_path |-> e.path,
     dependencies |-> extract_dependencies(e),
     dependents |-> <<>>,
     metrics |-> calculate_node_metrics(e)]

\* parse_rust_file: Err when the content cannot be read as text or the
\* metadata read fails (both leave through `?`), else Ok(node).
parse_rust_file(e, id) ==
    IF ~e.readable THEN [ok |-> FALSE, node |-> <<>>]
    ELSE IF ~e.metaParseOk THEN [ok |-> FALSE, node |-> <<>>]
    ELSE [ok |-> TRUE, node |-> MakeNode(e, id)]

(***************************************************************************)
(* DependencyAnalyzer.  A node map is a function id -> node; `order` is    *)
(* the iteration order of that HashMap, a permutation of its keys.         *)
(***************************************************************************)
\* find_node_by_name: nodes.values().find(|node| node.name == name)
find_node_by_name(nodes, order, name) ==
    IF \E i \in DOMAIN order : nodes[order[i]].name = name
    THEN Some(nodes[order[CHOOSE i \in DOMAIN order :
                        /\ nodes[order[i]].name = name
                        /\ \A j \in 1..(i - 1) : nodes[order[j]].name # name]])
    ELSE None

\* determine_relationship_type without the arm for a Testing source.
determine_relationship_type_no_testing(source, target) ==
    LET s == source.module_type
        t == target.module_type
    IN IF s = "API" /\ t = "Core" THEN "Uses"
       ELSE IF s = "Core" /\ t = "DataProcessing" THEN "Uses"
       ELSE IF s = "Execution" /\ t = "Core" THEN "Uses"
       ELSE IF s = "Integration" /\ t = "API" THEN "Uses"
       ELSE "DependsOn"

\* determine_relationship_type
determine_relationship_type(source, target) ==
    LET s == source.module_type
        t == target.module_type
    IN IF s = "API" /\ t = "Core" THEN "Uses"
       ELSE IF s = "Core" /\ t = "DataProcessing" THEN "Uses"
       ELSE IF s = "Execution" /\ t = "Core" THEN "Uses"
       ELSE IF s = "Integration" /\ t = "API" THEN "Uses"
       ELSE IF s = "Testing" THEN "Uses"
       ELSE "DependsOn"

\* calculate_dependency_strength without the final min(1.0).
calculate_dependency_strength_unclamped(source, target) ==
    LET base == 10 + Len(source.dependencies)
        core == IF target.module_type = "Core" THEN 5 ELSE 0
        api == IF source.module_type = "API" THEN 3 ELSE 0
    IN base + core + api

\* calculate_dependency_strength, in tenths (1.0 is 10).
calculate_dependency_strength(source, target) ==
    LET base == 10 + Len(source.dependencies)
        core == IF target.module_type = "Core" THEN 5 ELSE 0
        api == IF source.module_type = "API" THEN 3 ELSE 0
        strength == base + core + api
    IN IF strength < 10 THEN strength ELSE 10

\* Mutant of EdgeTarget: the edge points at the dependency name.
EdgeTargetByName(target_node, dep_name) == dep_name

\* The `to` field of a new edge: the id of the node the name resolved to.
EdgeTarget(target_node, dep_name) == target_node.id

\* The DependencyEdge built in the inner loop of analyze_dependencies.
MakeEdge(source_id, source_node, target_node, dep_name) ==
    [from |-> source_id,
     to |-> EdgeTarget(target_node, dep_name),
     relationship |-> determine_relationship_type(source_node, target_node),
     strength |-> calculate_dependency_strength(source_node, target_node),
     is_circular |-> FALSE]

\* Mutant of EdgesOfNode: an entry whose name occurs again later in the list
\* is dropped, so a repeated name yields a single edge.
RECURSIVE EdgesOfNodeDedup(_, _, _, _)
EdgesOfNodeDedup(nodes, order, source_id, deps) ==
    IF deps = <<>> THEN <<>>
    ELSE LET found == find_node_by_name(nodes, order, Head(deps))
             again == \E i \in DOMAIN Tail(deps) : Tail(deps)[i] = Head(deps)
         IN (IF found.some /\ ~again
             THEN <<MakeEdge(source_id, nodes[source_id], found.value, Head(deps))>>
             ELSE <<>>)
            \o EdgesOfNodeDedup(nodes, order, source_id, Tail(deps))

\* The inner loop of analyze_dependencies for one source node: one edge per
\* dependency entry that resolves, in the order of the entries.
RECURSIVE EdgesOfNode(_, _, _, _)
EdgesOfNode(nodes, order, source_id, deps) ==
    IF deps = <<>> THEN <<>>
    ELSE LET found == find_node_by_name(nodes, order, Head(deps))
         IN (IF found.some
             THEN <<MakeEdge(source_id, nodes[source_id], found.value, Head(deps))>>
             ELSE <<>>)
            \o EdgesOfNode(nodes, order, source_id, Tail(deps))

\* BuildEdges with the map iterated backwards in the lookups of every
\* second source node.
BuildEdgesOrderPerSource(nodes, order) ==
    LET backwards == [i \in DOMAIN order |-> order[Len(order) + 1 - i]]
    IN Concat([i \in DOMAIN order |->
                 EdgesOfNode(nodes, IF i % 2 = 0 THEN backwards ELSE order,
                             order[i], nodes[order[i]].dependencies)])

\* The outer loop of analyze_dependencies: the nodes in iteration order.
BuildEdges(nodes, order) ==
    Concat([i \in DOMAIN order |->
              EdgesOfNode(nodes, order, order[i], nodes[order[i]].dependencies)])

\* The adjacency list of find_circular_dependencies: from -> targets, in the
\* order of the edge list.
RECURSIVE Targets(_, _)
Targets(edges, from) ==
    IF edges = <<>> THEN <<>>
    ELSE (IF Head(edges).from = from THEN <<Head(edges).to>> ELSE <<>>)
         \o Targets(Tail(edges), from)

GraphKeys(edges) == {edges[i].from : i \in DOMAIN edges}
BuildGraph(edges) == [k \in GraphKeys(edges) |-> Targets(edges, k)]

\* path.iter().position(|n| n == neighbor); 0 is None.
Position(path, n) ==
    IF \E i \in DOMAIN path : path[i] = n
    THEN CHOOSE i \in DOMAIN path : path[i] = n /\ \A j \in 1..(i - 1) : path[j] # n
    ELSE 0

\* The state the search threads through its calls.
DfsInit == [visited |-> {}, rec_stack |-> {}, path |-> <<>>, cycles |-> <<>>, entered |-> <<>>]

\* DfsEnter without rec_stack.insert(node).
DfsEnterNoStack(st, node) ==
    [st EXCEPT !.visited = @ \cup {node},
               !.path = Append(@, node),
               !.entered = Append(@, node)]

\* dfs_find_cycles, lines 157-159: mark, put on the stack, extend the path.
DfsEnter(st, node) ==
    [st EXCEPT !.visited = @ \cup {node},
               !.rec_stack = @ \cup {node},
               !.path = Append(@, node),
               !.entered = Append(@, node)]

\* DfsLeave without rec_stack.remove(node).
DfsLeaveKeepStack(st, node) == [st EXCEPT !.path = SubSeq(@, 1, Len(@) - 1)]

\* Mutant of DfsLeave: the node is taken off the stack but stays on the path.
DfsLeaveNoPop(st, node) == [st EXCEPT !.rec_stack = @ \ {node}]

\* dfs_find_cycles, lines 175-176: rec_stack.remove(node); path.pop().
DfsLeave(st, node) ==
    [st EXCEPT !.rec_stack = @ \ {node},
               !.path = SubSeq(@, 1, Len(@) - 1)]

\* DfsReport pushing the whole path instead of path[cycle_start..].
DfsReportWholePath(st, neighbor) ==
    LET cycle_start == Position(st.path, neighbor)
    IN IF cycle_start > 0 THEN [st EXCEPT !.cycles = Append(@, st.path)] ELSE st

\* dfs_find_cycles, lines 167-170: the cycle is the path from the first
\* position of the neighbour to the tip.
DfsReport(st, neighbor) ==
    LET cycle_start == Position(st.path, neighbor)
    IN IF cycle_start > 0
       THEN [st EXCEPT !.cycles = Append(@, SubSeq(st.path, cycle_start, Len(st.path)))]
       ELSE st

\* dfs_find_cycles(node, ...) and its loop over graph[node] from position i.
RECURSIVE dfs_find_cycles(_, _, _), DfsNeighbors(_, _, _, _)
dfs_find_cycles(node, graph, st) ==
    LET st1 == DfsEnter(st, node)
        st2 == IF node \in DOMAIN graph THEN DfsNeighbors(node, graph, 1, st1) ELSE st1
    IN DfsLeave(st2, node)

DfsNeighbors(node, graph, i, st) ==
    IF i > Len(graph[node]) THEN st
    ELSE LET neighbor == graph[node][i]
             st1 == IF neighbor \notin st.visited THEN dfs_find_cycles(neighbor, graph, st)
                    ELSE IF neighbor \in st.rec_stack THEN DfsReport(st, neighbor)
                    ELSE st
         IN DfsNeighbors(node, graph, i + 1, st1)

\* The loop `for node in graph.keys()` over the remaining roots.
RECURSIVE DfsRoots(_, _, _)
DfsRoots(roots, graph, st) ==
    IF roots = <<>> THEN st
    ELSE DfsRoots(Tail(roots), graph,
                  IF Head(roots) \notin st.visited
                  THEN dfs_find_cycles(Head(roots), graph, st)
                  ELSE st)

\* The final state of the search of find_circular_dependencies; `roots` is
\* the iteration order of graph.keys().
DfsRun(edges, roots) == DfsRoots(roots, BuildGraph(edges), DfsInit)

\* find_circular_dependencies
find_circular_dependencies(edges, roots) == DfsRun(edges, roots).cycles

\* Mutant of InCycleWindow: a window is compared with (from, to) only.
InCycleWindowForward(circular_deps, edge) ==
    \E c \in DOMAIN circular_deps :
        \E w \in 1..(Len(circular_deps[c]) - 1) :
            circular_deps[c][w] = edge.from /\ circular_deps[c][w + 1] = edge.to

\* The closure of update_circular_dependencies: some cycle.windows(2) pair
\* equals (from, to) or (to, from).
InCycleWindow(circular_deps, edge) ==
    \E c \in DOMAIN circular_deps :
        \E w \in 1..(Len(circular_deps[c]) - 1) :
            LET pair == <<circular_deps[c][w], circular_deps[c][w + 1]>>
            IN \/ (pair[1] = edge.from /\ pair[2] = edge.to)
               \/ (pair[1] = edge.to /\ pair[2] = edge.from)

\* update_circular_dependencies
update_circular_dependencies(edges, roots) ==
    LET circular_deps == find_circular_dependencies(edges, roots)
    IN [i \in DOMAIN edges |->
          [edges[i] EXCEPT !.is_circular = InCycleWindow(circular_deps, edges[i])]]

\* analyze_dependencies: Ok(edges), with the flags set.
analyze_dependencies(nodes, order, roots) ==
    update_circular_dependencies(BuildEdges(nodes, order), roots)

(***************************************************************************)
(* MetricsCalculator.  A ratio is a pair <<numerator, denominator>>.       *)
(***************************************************************************)
\* calculate_dependency_density
calculate_dependency_density(nodes, edges) ==
    LET node_count == Cardinality(DOMAIN nodes)
    IN IF node_count <= 1 THEN <<0, 1>>
       ELSE <<Len(edges), node_count * (node_count - 1)>>

\* Arithmetic on ratios with positive denominators.
RatLe(a, b) == a[1] * b[2] <= b[1] * a[2]
RatEq(a, b) == a[1] * b[2] = b[1] * a[2]
RatMin(a, b) == IF RatLe(a, b) THEN a ELSE b
RatMax(a, b) == IF RatLe(a, b) THEN b ELSE a
RECURSIVE Gcd(_, _)
Gcd(m, n) == IF n = 0 THEN m ELSE Gcd(n, m % n)
\* The ratio in lowest terms (TLC's integers are 32 bits wide).
Reduce(r) == LET g == Gcd(r[1], r[2]) IN IF g = 0 THEN r ELSE <<r[1] \div g, r[2] \div g>>
RatAdd(a, b) == Reduce(<<a[1] * b[2] + b[1] * a[2], a[2] * b[2]>>)
RatDiv(a, b) == Reduce(<<a[1] * b[2], a[2] * b[1]>>)

\* The sum of f[id] over the ids of S.
RECURSIVE SumOver(_, _)
SumOver(f, S) ==
    IF S = {} THEN 0
    ELSE LET id == CHOOSE x \in S : TRUE IN f[id] + SumOver(f, S \ {id})

\* nodes.values().map(|n| n.metrics.<field>).sum()
SumLines(nodes) == SumOver([id \in DOMAIN nodes |-> nodes[id].metrics.lines_of_code], DOMAIN nodes)
SumComplexity(nodes) ==
    SumOver([id \in DOMAIN nodes |-> nodes[id].metrics.complexity_score], DOMAIN nodes)

\* The average complexity of scan and of calculate_maintainability_index:
\* the sum (in tenths) over the number of nodes; callers test for no nodes.
AverageComplexity(nodes) == <<SumComplexity(nodes), 10 * Cardinality(DOMAIN nodes)>>

\* complexities.fold(0.0, f64::max) and the is_finite test, in tenths.
max_complexity(nodes) ==
    LET cs == {nodes[id].metrics.complexity_score : id \in DOMAIN nodes} \cup {0}
    IN CHOOSE m \in cs : \A c \in cs : c <= m

\* complexities.fold(f64::INFINITY, f64::min): infinite over no node, and
\* then replaced by 0.0 by the is_finite test.
min_complexity(nodes) ==
    LET cs == {nodes[id].metrics.complexity_score : id \in DOMAIN nodes}
    IN IF cs = {} THEN 0 ELSE CHOOSE m \in cs : \A c \in cs : m <= c

\* calculate_modularity_score: the entropy of the module_type distribution
\* over max(log2(number of types), 1).  One type gives 0; t >= 2 types with
\* equal counts give log2(t) / log2(t) = 1; any other distribution has no
\* closed form and is kept as its type counts.
calculate_modularity_score(nodes) ==
    LET types == {nodes[id].module_type : id \in DOMAIN nodes}
        type_counts == [t \in types |->
                          Cardinality({id \in DOMAIN nodes : nodes[id].module_type = t})]
        even == \A t, u \in types : type_counts[t] = type_counts[u]
    IN IF DOMAIN nodes = {} THEN [closed |-> TRUE, value |-> <<0, 1>>, type_counts |-> <<>>]
       ELSE IF Cardinality(types) = 1
            THEN [closed |-> TRUE, value |-> <<0, 1>>, type_counts |-> type_counts]
       ELSE IF even THEN [closed |-> TRUE, value |-> <<1, 1>>, type_counts |-> type_counts]
       ELSE [closed |-> FALSE, value |-> <<0, 1>>, type_counts |-> type_counts]

\* Mutant of LinesFactor: the quotient is not clamped to 1.
LinesFactorNoClamp(total_lines) == RatDiv(<<1000, 1>>, RatMax(<<total_lines, 1>>, <<1, 1>>))

\* (1000.0 / total_lines.max(1.0)).min(1.0)
LinesFactor(total_lines) ==
    RatMin(RatDiv(<<1000, 1>>, RatMax(<<total_lines, 1>>, <<1, 1>>)), <<1, 1>>)

\* (10.0 / avg_complexity.max(1.0)).min(1.0)
ComplexityFactor(avg_complexity) ==
    RatMin(RatDiv(<<10, 1>>, RatMax(avg_complexity, <<1, 1>>)), <<1, 1>>)

\* Mutant of calculate_maintainability_index: no early return for an empty
\* node map, so the average is NaN, NaN.max(1.0) is 1.0 and the index is 1.
calculate_maintainability_index_unguarded(nodes) ==
    IF DOMAIN nodes = {} THEN <<1, 1>>
    ELSE RatDiv(RatAdd(LinesFactor(SumLines(nodes)),
                       ComplexityFactor(AverageComplexity(nodes))), <<2, 1>>)

\* calculate_maintainability_index
calculate_maintainability_index(nodes) ==
    IF DOMAIN nodes = {} THEN <<0, 1>>
    ELSE RatDiv(RatAdd(LinesFactor(SumLines(nodes)),
                       ComplexityFactor(AverageComplexity(nodes))), <<2, 1>>)

\* calculate_architecture_metrics
calculate_architecture_metrics(nodes, edges) ==
    [total_functions |->
        SumOver([id \in DOMAIN nodes |-> nodes[id].metrics.function_count], DOMAIN nodes),
     total_structs |->
        SumOver([id \in DOMAIN nodes |-> nodes[id].metrics.struct_count], DOMAIN nodes),
     total_enums |->
        SumOver([id \in DOMAIN nodes |-> nodes[id].metrics.enum_count], DOMAIN nodes),
     total_traits |->
        SumOver([id \in DOMAIN nodes |-> nodes[id].metrics.trait_count], DOMAIN nodes),
     max_complexity |-> max_complexity(nodes),
     min_complexity |-> min_complexity(nodes),
     dependency_density |-> calculate_dependency_density(nodes, edges),
     modularity_score |-> calculate_modularity_score(nodes),
     maintainability_index |-> calculate_maintainability_index(nodes)]

(***************************************************************************)
(* The state of a scan.                                                    *)
(*   dir     the directory below the scan root (read only)                 *)
(*   config  the ScanningSettings (read only)                              *)
(*   pc      the position of ArchitectureScanner::scan                     *)
(*   files   rust_files not yet parsed                                     *)
(*   nodes   the node map being filled                                     *)
(*   nextId  stands for Uuid::new_v4(): a counter of the ids handed out    *)
(*   edges   the result of analyze_dependencies                            *)
(*   circular_deps  the cycle list update_circular_dependencies computed   *)
(*           the flags from (a local of that function, kept for reference) *)
(*   result  what scan returned                                            *)
(*   prev    what earlier scans of the same directory returned             *)
(***************************************************************************)
VARIABLES dir, config, pc, files, nodes, nextId, edges, circular_deps, result, prev

(***************************************************************************)
(* The state of the serving layer (WebState).                              *)
(*   lock    the tokio RwLock around the ArchitectureVisualizer: the       *)
(*           client holding the write guard (0: none) and the clients      *)
(*           holding read guards                                           *)
(*   cache   ArchitectureVisualizer::cached_architecture                   *)
(*   req     per client, the request it runs: the handler, its position,   *)
(*           and what get_architecture or refresh returned to it           *)
(*   scans   the number of scans started so far; a Snapshot is known by    *)
(*           the number of the scan that made it                           *)
(***************************************************************************)
VARIABLES lock, cache, req, scans

(***************************************************************************)
(* The state of the calculators called on their own.                       *)
(*   content_lines  the lines calculate_cognitive_complexity has yet to    *)
(*           look at                                                       *)
(*   nesting_level, complexity  the locals of that loop                    *)
(*   dependency_metrics  what calculate_dependency_metrics returned        *)
(***************************************************************************)
VARIABLES content_lines, nesting_level, complexity, dependency_metrics

scanVars == <<dir, config, pc, files, nodes, nextId, edges, circular_deps, result, prev>>
serveVars == <<lock, cache, req, scans>>
calcVars == <<content_lines, nesting_level, complexity, dependency_metrics>>
vars == <<dir, config, pc, files, nodes, nextId, edges, circular_deps, result, prev,
          lock, cache, req, scans,
          content_lines, nesting_level, complexity, dependency_metrics>>

NotCalled == [tag |-> "NotCalled"]

\* No calculator is called on its own.
CalcIdle ==
    /\ content_lines = <<>>
    /\ nesting_level = 0
    /\ complexity = 0
    /\ dependency_metrics = NotCalled

NoLock == [writer |-> 0, readers |-> {}]

\* No serving layer: the scanner is used on its own.
ServeIdle ==
    /\ lock = NoLock
    /\ cache = None
    /\ req = <<>>
    /\ scans = 0

Digit == <<"0", "1", "2", "3", "4", "5", "6", "7", "8", "9">>
\* The text of the n-th id handed out.
IdOf(n) == <<"u", Digit[(n \div 10) + 1], Digit[(n % 10) + 1]>>

EmptyMap ==
    [nodes |-> <<>>, edges |-> <<>>, total_modules |-> 0, total_lines |-> 0,
     average_complexity |-> <<0, 1>>, circular_dependencies |-> <<>>,
     metrics |-> calculate_architecture_metrics(<<>>, <<>>)]
NoResult == [tag |-> "None", map |-> EmptyMap]

\* The ArchitectureMap assembled at the end of scan; `roots` is the key
\* order of the second find_circular_dependencies call.
MakeMap(ns, es, roots) ==
    [nodes |-> ns,
     edges |-> es,
     total_modules |-> Cardinality(DOMAIN ns),
     total_lines |-> SumLines(ns),
     average_complexity |->
        IF Cardinality(DOMAIN ns) > 0 THEN AverageComplexity(ns) ELSE <<0, 1>>,
     circular_dependencies |-> find_circular_dependencies(es, roots),
     metrics |-> calculate_architecture_metrics(ns, es)]

\* Mutant of OnParsed: the error of parse_rust_file leaves scan through `?`.
OnParsedPropagate(r) == IF r.ok THEN "insert" ELSE "fail"

\* What the loop of scan does with the result of parse_rust_file:
\* `if let Ok(node) = ...` inserts the node and otherwise goes on.
OnParsed(r) == IF r.ok THEN "insert" ELSE "skip"

(***************************************************************************)
(* The steps of ArchitectureScanner::scan.                                 *)
(***************************************************************************)
\* let rust_files = self.find_rust_files()?;
FindRustFiles ==
    /\ pc = "select"
    /\ files' = find_rust_files(config, dir)
    /\ pc' = "parse"
    /\ UNCHANGED <<dir, config, nodes, nextId, edges, circular_deps, result, prev>>
    /\ UNCHANGED serveVars
    /\ UNCHANGED calcVars

\* One iteration of `for file_path in &rust_files`.
ParseRustFile ==
    /\ pc = "parse"
    /\ files # <<>>
    /\ LET r == parse_rust_file(dir.entries[Head(files)], IdOf(nextId))
           what == OnParsed(r)
       IN IF what = "insert"
          THEN /\ nodes' = (nodes @@ (r.node.id :> r.node))
               /\ nextId' = nextId + 1
               /\ files' = Tail(files)
               /\ UNCHANGED <<pc, result>>
          ELSE IF what = "skip"
          THEN /\ files' = Tail(files)
               /\ UNCHANGED <<nodes, nextId, pc, result>>
          ELSE /\ result' = [tag |-> "Err", map |-> EmptyMap]
               /\ pc' = "done"
               /\ UNCHANGED <<nodes, nextId, files>>
    /\ UNCHANGED <<dir, config, edges, circular_deps, prev>>
    /\ UNCHANGED serveVars
    /\ UNCHANGED calcVars

\* let edges = self.dependency_analyzer.analyze_dependencies(&nodes)?;
AnalyzeDependencies ==
    /\ pc = "parse"
    /\ files = <<>>
    /\ \E order \in Perms(DOMAIN nodes) :
         \E roots \in Perms(GraphKeys(BuildEdges(nodes, order))) :
            /\ edges' = analyze_dependencies(nodes, order, roots)
            /\ circular_deps' = find_circular_dependencies(BuildEdges(nodes, order), roots)
    /\ pc' = "assemble"
    /\ UNCHANGED <<dir, config, files, nodes, nextId, result, prev>>
    /\ UNCHANGED serveVars
    /\ UNCHANGED calcVars

\* The metrics, the second cycle search, the totals and Ok(architecture).
Assemble ==
    /\ pc = "assemble"
    /\ \E roots \in Perms(GraphKeys(edges)) :
         result' = [tag |-> "Ok", map |-> MakeMap(nodes, edges, roots)]
    /\ pc' = "done"
    /\ UNCHANGED <<dir, config, files, nodes, nextId, edges, circular_deps, prev>>
    /\ UNCHANGED serveVars
    /\ UNCHANGED calcVars

\* The caller scans the same directory again with the same scanner.
Rescan ==
    /\ pc = "done"
    /\ Len(prev) + 1 < MaxScans
    /\ prev' = Append(prev, result)
    /\ pc' = "select"
    /\ files' = <<>>
    /\ nodes' = <<>>
    /\ edges' = <<>>
    /\ circular_deps' = <<>>
    /\ result' = NoResult
    /\ UNCHANGED <<dir, config, nextId>>
    /\ UNCHANGED serveVars
    /\ UNCHANGED calcVars

Next == FindRustFiles \/ ParseRustFile \/ AnalyzeDependencies \/ Assemble

NextRescan == Next \/ Rescan

(***************************************************************************)
(* Initial states.                                                         *)
(***************************************************************************)
InitScan ==
    /\ pc = "select"
    /\ files = <<>>
    /\ nodes = <<>>
    /\ nextId = 1
    /\ edges = <<>>
    /\ circular_deps = <<>>
    /\ result = NoResult
    /\ prev = <<>>

\* A regular readable file with the given references.
GraphEntry(i, uses, mods) ==
    [path |-> GraphPaths[i], size |-> 1, readable |-> TRUE,
     metaSelOk |-> TRUE, metaParseOk |-> TRUE,
     uses |-> uses, mods |-> mods, words |-> {}, loc |-> 1, counts |-> NoLiterals]

\* The ways to give each of the first k files a number of `use` references
\* and at most one `mod` declaration, maxRefs references in all at most.
RefShapes(k, maxRefs) ==
    {sh \in [GraphFiles -> (0..maxRefs) \X {0, 1}] :
        /\ \A i \in GraphFiles : i > k => sh[i] = <<0, 0>>
        /\ SumSeq([i \in GraphFiles |-> sh[i][1] + sh[i][2]]) <= maxRefs}

\* Sum of the use counts of the files before file i.
RECURSIVE UsesBefore(_, _)
UsesBefore(sh, i) == IF i = 1 THEN 0 ELSE UsesBefore(sh, i - 1) + sh[i - 1][1]

\* The directory of the first k files, in which file i holds its share of
\* the references `flat` and, when the shape says so, the declaration
\* `mod a`, which makes "a" the file's module name and one of its
\* dependencies.
GraphDir(k, sh, flat) ==
    [rootOk |-> TRUE,
     entries |-> [i \in 1..k |->
        GraphEntry(i,
                   SubSeq(flat, UsesBefore(sh, i) + 1, UsesBefore(sh, i) + sh[i][1]),
                   IF sh[i][2] = 1 THEN <<FileStem(GraphPaths[1])>> ELSE <<>>)]]

InitDir(maxRefs) ==
    \E k \in 0..Len(GraphPaths) :
        \E sh \in RefShapes(k, maxRefs) :
            \E flat \in [1..UsesBefore(sh, Len(GraphPaths) + 1) -> Names] :
                dir = GraphDir(k, sh, flat)

InitGraph ==
    /\ InitDir(MaxRefs)
    /\ config = PlainConfig
    /\ InitScan
    /\ ServeIdle
    /\ CalcIdle

\* One scan of a directory of source files that reference one another.
Spec == InitGraph /\ [][Next]_vars

\* Two scans of such a directory.
InitRescan ==
    /\ InitDir(RescanRefs)
    /\ config = PlainConfig
    /\ InitScan
    /\ ServeIdle
    /\ CalcIdle

SpecRescan == InitRescan /\ [][NextRescan]_vars

(***************************************************************************)
(* ProjectScanner::scan_incremental(last_scan) after an earlier scan,      *)
(* with the directory possibly changed in between.                         *)
(***************************************************************************)
\* What the directory d may have become since the last scan: unchanged, or
\* without its last file.
DirAfter(d) ==
    {d} \cup (IF d.entries = <<>> THEN {}
              ELSE {[d EXCEPT !.entries = SubSeq(@, 1, Len(@) - 1)]})

\* Mutant of IncrementalPlan: an earlier Snapshot is handed back.
IncrementalPlanReuse(last_scan) == IF last_scan.tag = "Ok" THEN "reuse" ELSE "full"

\* What scan_incremental does with last_scan: nothing, it calls self.scan()
\* (NoResult stands for None).
IncrementalPlan(last_scan) == "full"

\* scan_incremental(last_scan) is called after a scan has returned; prev
\* keeps the argument.
ScanIncremental ==
    /\ pc = "done"
    /\ Len(prev) + 1 < MaxScans
    /\ \E d \in DirAfter(dir) : dir' = d
    /\ \E last_scan \in {NoResult, result} :
         /\ prev' = Append(prev, last_scan)
         /\ IF IncrementalPlan(last_scan) = "full"
            THEN /\ pc' = "select"
                 /\ files' = <<>>
                 /\ nodes' = <<>>
                 /\ edges' = <<>>
                 /\ circular_deps' = <<>>
                 /\ result' = NoResult
            ELSE /\ result' = last_scan
                 /\ UNCHANGED <<pc, files, nodes, edges, circular_deps>>
    /\ UNCHANGED <<config, nextId>>
    /\ UNCHANGED serveVars
    /\ UNCHANGED calcVars

NextIncremental == Next \/ ScanIncremental

\* The first k of a.rs, b.rs, c.rs, each with or without the line
\* `use crate::a;`.
InitIncremental ==
    /\ \E k \in 0..Len(GraphPaths) :
         \E refs \in [1..k -> BOOLEAN] :
            dir = [rootOk |-> TRUE,
                   entries |-> [i \in 1..k |->
                      GraphEntry(i, IF refs[i] THEN <<FileStem(GraphPaths[1])>> ELSE <<>>,
                                 <<>>)]]
    /\ config = PlainConfig
    /\ InitScan
    /\ ServeIdle
    /\ CalcIdle

\* A scan followed by calls of scan_incremental.
SpecIncremental == InitIncremental /\ [][NextIncremental]_vars

(***************************************************************************)
(* A directory for the file selector: a.rs, t/b.rs and c.md, without       *)
(* references, under every configuration of SelConfigs; the root may be    *)
(* missing, and up to MaxFaults irregularities are spread over the files.  *)
(***************************************************************************)
SelPaths == <<(<<"a", ".">> \o RS), (<<"t", "/", "b", ".">> \o RS), <<"c", ".", "m", "d">>>>

FaultKinds == {"oversized", "unreadable", "metaSelFails", "metaParseFails"}

FaultSets ==
    {F \in SUBSET ((DOMAIN SelPaths) \X FaultKinds) : Cardinality(F) <= MaxFaults}

\* The patterns: t/**  *.rs  ***  t/*  **/*.rs  a**  (*** and a** are
\* rejected by Pattern::new).
ExcludeChoices ==
    {<<>>,
     <<(<<"t", "/", "*", "*">>)>>,
     <<(<<"*", ".">> \o RS)>>,
     <<(<<"*", "*", "*">>), (<<"t", "/", "*">>)>>}

IncludeChoices ==
    {<<>>,
     <<(<<"*", "*", "/", "*", ".">> \o RS)>>,
     <<(<<"t", "/", "*">>)>>,
     <<(<<"a", "*", "*">>)>>}

\* A limit of 2 bytes; a regular file has 1 byte, an oversized one 3.
LimitChoices == {None, Some(2)}

SelConfigs ==
    [exclude_patterns : ExcludeChoices, include_patterns : IncludeChoices,
     max_file_size : LimitChoices]

SelEntry(i, F) ==
    [path |-> SelPaths[i],
     size |-> IF <<i, "oversized">> \in F THEN 3 ELSE 1,
     readable |-> <<i, "unreadable">> \notin F,
     metaSelOk |-> <<i, "metaSelFails">> \notin F,
     metaParseOk |-> <<i, "metaParseFails">> \notin F,
     uses |-> <<>>, mods |-> <<>>, words |-> {}, loc |-> 1, counts |-> NoLiterals]

InitSelect ==
    /\ \E ok \in BOOLEAN : \E F \in FaultSets :
          dir = [rootOk |-> ok, entries |-> [i \in DOMAIN SelPaths |-> SelEntry(i, F)]]
    /\ config \in SelConfigs
    /\ InitScan
    /\ ServeIdle
    /\ CalcIdle

\* One scan of that directory.
SpecSelect == InitSelect /\ [][Next]_vars

(***************************************************************************)
(* A directory for the metrics: the first k of a.rs, b.rs, c.rs, without   *)
(* references, each with no, one or 1500 code lines, with no or 30         *)
(* occurrences of "if " and with no or one occurrence of "fn ".            *)
(***************************************************************************)
LocChoices == {0, 1, 1500}
IfChoices == {0, 30}
FnChoices == {0, 1}

MetricsEntry(i, loc, ifs, fns) ==
    [GraphEntry(i, <<>>, <<>>) EXCEPT
        !.loc = loc,
        !.counts = [NoLiterals EXCEPT !["if "] = ifs, !["fn "] = fns]]

InitMetrics ==
    /\ \E k \in 0..Len(GraphPaths) :
         \E loc \in [1..k -> LocChoices] :
            \E ifs \in [1..k -> IfChoices] :
               \E fns \in [1..k -> FnChoices] :
                  dir = [rootOk |-> TRUE,
                         entries |-> [i \in 1..k |-> MetricsEntry(i, loc[i], ifs[i], fns[i])]]
    /\ config = PlainConfig
    /\ InitScan
    /\ ServeIdle
    /\ CalcIdle

\* One scan of that directory.
SpecMetrics == InitMetrics /\ [][Next]_vars

(***************************************************************************)
(* The serving layer: handlers of src/web sharing one                      *)
(* Arc<RwLock<ArchitectureVisualizer>>.                                    *)
(***************************************************************************)
Clients == 1..MaxClients

\* The handlers that take the lock; "websocket_refresh" is the "refresh"
\* message arm of handle_websocket, "handle_websocket" its initial send.
Handlers ==
    {"index_handler", "architecture_handler", "metrics_handler", "config_handler",
     "handle_websocket", "refresh_handler", "websocket_refresh"}

IsRefresh(h) == h \in {"refresh_handler", "websocket_refresh"}

\* Mutant of HandlerLock: a refresh asks for a read guard.
HandlerLockAllRead(h) == "read"

\* The guard a handler asks for: visualizer.write() in the refresh
\* handlers, visualizer.read() in the others.
HandlerLock(h) == IF IsRefresh(h) THEN "write" ELSE "read"

NoGot == [tag |-> "None", snap |-> 0]
IdleReq == [handler |-> "", at |-> "idle", got |-> NoGot]

\* The outcomes of the scan number n + 1: a fresh Snapshot or an error.
ScanAsync(n) == {[tag |-> "Ok", snap |-> n + 1], [tag |-> "Err", snap |-> 0]}

\* get_architecture: a clone of the cached Snapshot when there is one, else
\* the outcome `out` of a scan; `scanned` tells whether the scan was run.
get_architecture(cached_architecture, out) ==
    IF cached_architecture.some
    THEN [ret |-> [tag |-> "Ok", snap |-> cached_architecture.value], scanned |-> FALSE]
    ELSE [ret |-> out, scanned |-> TRUE]

\* Mutant of RefreshCache: the new Snapshot is returned but not stored.
RefreshCacheKeep(cached_architecture, architecture) == cached_architecture

\* refresh, line 38: self.cached_architecture = Some(architecture.clone())
RefreshCache(cached_architecture, architecture) == Some(architecture)

\* A request arrives and its handler starts.
Request ==
    /\ \E p \in Clients : \E h \in Handlers :
         /\ req[p].at = "idle"
         /\ req' = [req EXCEPT ![p] = [handler |-> h, at |-> "waiting", got |-> NoGot]]
    /\ UNCHANGED <<lock, cache, scans>>
    /\ UNCHANGED scanVars
    /\ UNCHANGED calcVars

\* state.visualizer.read().await returns the guard.
AcquireRead ==
    /\ \E p \in Clients :
         /\ req[p].at = "waiting"
         /\ HandlerLock(req[p].handler) = "read"
         /\ lock.writer = 0
         /\ lock' = [lock EXCEPT !.readers = @ \cup {p}]
         /\ req' = [req EXCEPT ![p].at = "locked"]
    /\ UNCHANGED <<cache, scans>>
    /\ UNCHANGED scanVars
    /\ UNCHANGED calcVars

\* state.visualizer.write().await returns the guard.
AcquireWrite ==
    /\ \E p \in Clients :
         /\ req[p].at = "waiting"
         /\ HandlerLock(req[p].handler) = "write"
         /\ lock.writer = 0
         /\ lock.readers = {}
         /\ lock' = [lock EXCEPT !.writer = p]
         /\ req' = [req EXCEPT ![p].at = "locked"]
    /\ UNCHANGED <<cache, scans>>
    /\ UNCHANGED scanVars
    /\ UNCHANGED calcVars

\* visualizer.get_architecture().await in a reading handler.
GetArchitecture ==
    /\ \E p \in Clients : \E out \in ScanAsync(scans) :
         LET r == get_architecture(cache, out)
         IN /\ req[p].at = "locked"
            /\ ~IsRefresh(req[p].handler)
            /\ req[p].handler # "config_handler"
            /\ req' = [req EXCEPT ![p].at = "returned", ![p].got = r.ret]
            /\ scans' = IF r.scanned THEN scans + 1 ELSE scans
    /\ UNCHANGED <<lock, cache>>
    /\ UNCHANGED scanVars
    /\ UNCHANGED calcVars

\* visualizer.get_config() in config_handler.
GetConfig ==
    /\ \E p \in Clients :
         /\ req[p].at = "locked"
         /\ req[p].handler = "config_handler"
         /\ req' = [req EXCEPT ![p].at = "returned"]
    /\ UNCHANGED <<lock, cache, scans>>
    /\ UNCHANGED scanVars
    /\ UNCHANGED calcVars

\* The `?` of refresh ignored: the function goes on to store after an error.
AfterScanNoReturn(out) == "scanned"

\* The `?` of refresh, line 37: an Err returns from the function at once, an
\* Ok goes on to the store.
AfterScan(out) == IF out.tag = "Ok" THEN "scanned" ELSE "returned"

\* refresh, line 37: let architecture = self.scanner.scan_async().await?;
RefreshScan ==
    /\ \E p \in Clients : \E out \in ScanAsync(scans) :
         /\ req[p].at = "locked"
         /\ IsRefresh(req[p].handler)
         /\ scans' = scans + 1
         /\ req' = [req EXCEPT ![p].got = out, ![p].at = AfterScan(out)]
    /\ UNCHANGED <<lock, cache>>
    /\ UNCHANGED scanVars
    /\ UNCHANGED calcVars

\* refresh, lines 38-39: store the Snapshot and return Ok(architecture).
RefreshStore ==
    /\ \E p \in Clients :
         /\ req[p].at = "scanned"
         /\ cache' = RefreshCache(cache, req[p].got.snap)
         /\ req' = [req EXCEPT ![p].at = "returned"]
    /\ UNCHANGED <<lock, scans>>
    /\ UNCHANGED scanVars
    /\ UNCHANGED calcVars

\* The guard is dropped at the end of the handler (or of the block).
Release ==
    /\ \E p \in Clients :
         /\ req[p].at = "returned"
         /\ lock' = [writer |-> IF lock.writer = p THEN 0 ELSE lock.writer,
                     readers |-> lock.readers \ {p}]
         /\ req' = [req EXCEPT ![p].at = "done"]
    /\ UNCHANGED <<cache, scans>>
    /\ UNCHANGED scanVars
    /\ UNCHANGED calcVars

NextServe ==
    \/ Request \/ AcquireRead \/ AcquireWrite \/ GetArchitecture \/ GetConfig
    \/ RefreshScan \/ RefreshStore \/ Release

InitServe ==
    /\ dir = [rootOk |-> TRUE, entries |-> <<>>]
    /\ config = PlainConfig
    /\ InitScan
    /\ lock = NoLock
    /\ cache = None
    /\ req = [p \in Clients |-> IdleReq]
    /\ scans = 0
    /\ CalcIdle

\* The requests of MaxClients clients in every interleaving.
SpecServe == InitServe /\ [][NextServe]_vars

(***************************************************************************)
(* Properties.                                                             *)
(***************************************************************************)
Done == pc = "done"
Returned == pc = "done" /\ result.tag = "Ok"
Snapshot == result.map

\* x and y are neighbours in the cycle c, in either direction, the closing
\* pair (last, first) included.
AdjacentIn(c, x, y) ==
    \E w \in DOMAIN c :
        LET nxt == c[(w % Len(c)) + 1]
        IN (c[w] = x /\ nxt = y) \/ (c[w] = y /\ nxt = x)

\* Some edge of es goes from x to y.
HasEdge(es, x, y) == \E i \in DOMAIN es : es[i].from = x /\ es[i].to = y

\* C1 (as claimed): in a returned Snapshot every edge flagged is_circular has
\* its two endpoints adjacent in some cycle of the Snapshot's own
\* circular_dependencies.
C1_FlaggedEdgeInPublishedCycle ==
    Returned =>
        \A i \in DOMAIN Snapshot.edges :
            Snapshot.edges[i].is_circular =>
                \E c \in DOMAIN Snapshot.circular_dependencies :
                    AdjacentIn(Snapshot.circular_dependencies[c],
                               Snapshot.edges[i].from, Snapshot.edges[i].to)

\* e is an edge of the cycle c: from some n_i to n_i+1, or the closing edge
\* from the last node back to the first (a self-loop when c is one node).
EdgeOfCycle(c, e) ==
    \E w \in DOMAIN c : c[w] = e.from /\ c[(w % Len(c)) + 1] = e.to

\* C2 (as claimed): after analyze_dependencies every edge of a cycle the
\* search reported is flagged is_circular.
C2_CycleEdgesFlagged ==
    pc = "assemble" =>
        \A c \in DOMAIN circular_deps : \A i \in DOMAIN edges :
            EdgeOfCycle(circular_deps[c], edges[i]) => edges[i].is_circular

\* Every consecutive pair of every cycle of cs is the (from, to) of an edge.
PairsAreEdges(cs, es) ==
    \A c \in DOMAIN cs : \A w \in 1..(Len(cs[c]) - 1) : HasEdge(es, cs[c][w], cs[c][w + 1])

\* C3: every consecutive pair of every cycle find_circular_dependencies
\* reports, in either of its two calls, is the (from, to) of an edge of the
\* edge list it was given.
C3_CyclePairsAreEdges ==
    /\ pc \in {"assemble", "done"} => PairsAreEdges(circular_deps, edges)
    /\ Returned => PairsAreEdges(Snapshot.circular_dependencies, Snapshot.edges)

\* C3 witness: a returned Snapshot with a cycle through three nodes.
C3_Witness ==
    /\ Returned
    /\ \E c \in DOMAIN Snapshot.circular_dependencies :
           Len(Snapshot.circular_dependencies[c]) = 3
    /\ \E c \in DOMAIN circular_deps : Len(circular_deps[c]) >= 2

\* C4: with the node map keyed by node id, both ends of every edge that
\* analyze_dependencies produces are keys of the node map.
C4_EdgeEndsAreNodes ==
    /\ \A id \in DOMAIN nodes : nodes[id].id = id
    /\ \A i \in DOMAIN edges : edges[i].from \in DOMAIN nodes /\ edges[i].to \in DOMAIN nodes
    /\ Returned =>
         \A i \in DOMAIN Snapshot.edges :
            /\ Snapshot.edges[i].from \in DOMAIN Snapshot.nodes
            /\ Snapshot.edges[i].to \in DOMAIN Snapshot.nodes

\* C4 witness: a returned Snapshot with edges between different nodes, one
\* of them to a node whose name another node shares.
C4_Witness ==
    /\ Returned
    /\ \E i \in DOMAIN Snapshot.edges :
         /\ Snapshot.edges[i].from # Snapshot.edges[i].to
         /\ \E id \in DOMAIN Snapshot.nodes :
              /\ id # Snapshot.edges[i].to
              /\ Snapshot.nodes[id].name = Snapshot.nodes[Snapshot.edges[i].to].name

\* C5 (as claimed): dependency_density lies in [0, 1] for more than one node
\* and is 0 for at most one node.
C5_DensityInUnitInterval ==
    Returned =>
        LET density == Snapshot.metrics.dependency_density
        IN IF Snapshot.total_modules > 1
           THEN 0 <= density[1] /\ density[1] <= density[2]
           ELSE density[1] = 0

\* A node of the map m identified by (name, path) instead of its id.
NodeKey(m, id) == <<m.nodes[id].name, m.nodes[id].file_path>>

NodeView(m) ==
    {[name |-> m.nodes[id].name, path |-> m.nodes[id].file_path,
      kind |-> m.nodes[id].module_type, metrics |-> m.nodes[id].metrics] :
        id \in DOMAIN m.nodes}

EdgeView(m) ==
    {<<NodeKey(m, m.edges[i].from), NodeKey(m, m.edges[i].to)>> : i \in DOMAIN m.edges}

\* C6 (as claimed): two scans of the same unchanged directory return
\* Snapshots whose nodes agree on name, kind and metrics and whose edge sets
\* are equal once nodes are identified by (name, path), for every content and
\* every iteration order of the hash maps.
C6_RescanIdempotent ==
    (Returned /\ prev # <<>> /\ prev[1].tag = "Ok") =>
        /\ NodeView(prev[1].map) = NodeView(Snapshot)
        /\ EdgeView(prev[1].map) = EdgeView(Snapshot)

\* C7 (as claimed): when the root is missing or unreadable, scan returns an
\* error and no Snapshot.
C7_MissingRootIsError ==
    (Done /\ ~dir.rootOk) => result.tag = "Err"

\* The selected files whose extraction does not fail.
Extractable ==
    {i \in Range(find_rust_files(config, dir)) :
        dir.entries[i].readable /\ dir.entries[i].metaParseOk}

C9_OversizedNeverANode ==
    (Returned /\ config.max_file_size.some) =>
        \A id \in DOMAIN Snapshot.nodes : \A i \in DOMAIN dir.entries :
            dir.entries[i].path = Snapshot.nodes[id].file_path
                => dir.entries[i].size <= config.max_file_size.value

\* The path of entry i matches at least one exclude pattern.
MatchesExclude(i) ==
    \E k \in DOMAIN config.exclude_patterns :
        GlobMatches(config.exclude_patterns[k], dir.entries[i].path)

MatchesInclude(i) ==
    \E k \in DOMAIN config.include_patterns :
        GlobMatches(config.include_patterns[k], dir.entries[i].path)

Admitted ==
    {i \in Range(WalkDir(dir)) :
        /\ Extension(dir.entries[i].path) = RS
        /\ ~MatchesExclude(i)
        /\ (config.include_patterns = <<>> \/ MatchesInclude(i))
        /\ (config.max_file_size.some
              => dir.entries[i].size <= config.max_file_size.value)}

\* C11 (as claimed): the file set find_rust_files returns is exactly the set
\* of walked files admitted by the selection rule.
C11_SelectedExactlyAdmitted ==
    [][(pc = "select" /\ pc' = "parse") => Range(files') = Admitted]_vars

\* The Snapshot holds exactly the two nodes x and y, each with a single
\* dependency entry, x's resolved to y and y's resolved to x.
MutualPair(x, y) ==
    /\ DOMAIN Snapshot.nodes = {x, y}
    /\ x # y
    /\ Len(Snapshot.nodes[x].dependencies) = 1
    /\ Len(Snapshot.nodes[y].dependencies) = 1
    /\ HasEdge(Snapshot.edges, x, y)
    /\ HasEdge(Snapshot.edges, y, x)

RECURSIVE ReachFrom(_, _)
ReachFrom(es, S) ==
    LET T == S \cup {es[i].to : i \in {j \in DOMAIN es : es[j].from \in S}}
    IN IF T = S THEN S ELSE ReachFrom(es, T)

\* The edge list es has a directed cycle: some edge's source is reachable
\* from its target.
HasDirectedCycle(es) ==
    \E i \in DOMAIN es : es[i].from \in ReachFrom(es, {es[i].to})

\* The Snapshot holds exactly the nodes x and y, x without dependencies and
\* y with the single dependency entry that equals x's name.
OneWayPair(x, y) ==
    /\ DOMAIN Snapshot.nodes = {x, y}
    /\ x # y
    /\ Snapshot.nodes[x].dependencies = <<>>
    /\ Snapshot.nodes[y].dependencies = <<Snapshot.nodes[x].name>>

\* The second half of C13: an acyclic edge graph has no reported cycle and no
\* flagged edge.
AcyclicMeansNoCycleReported ==
    (Returned /\ ~HasDirectedCycle(Snapshot.edges)) =>
        /\ Snapshot.circular_dependencies = <<>>
        /\ \A i \in DOMAIN Snapshot.edges : ~Snapshot.edges[i].is_circular

\* C13 (as claimed): a node y whose single dependency names a node x without
\* dependencies gives exactly one edge, from y to x, no cycle and no flag; and
\* whenever the resolved edge graph has no directed cycle, no cycle is
\* reported and no edge is flagged.
C13_OneWayReference ==
    /\ Returned =>
         \A x, y \in DOMAIN Snapshot.nodes :
             OneWayPair(x, y) =>
                /\ Len(Snapshot.edges) = 1
                /\ Snapshot.edges[1].from = y
                /\ Snapshot.edges[1].to = x
                /\ ~Snapshot.edges[1].is_circular
                /\ Snapshot.circular_dependencies = <<>>
    /\ AcyclicMeansNoCycleReported

\* The dependency string d equals the name of at least one node.
Resolvable(d) == \E id \in DOMAIN nodes : nodes[id].name = d

\* The names of the targets of the edges that leave node s, in edge order.
TargetNames(s) ==
    LET ts == Targets(edges, s) IN [i \in DOMAIN ts |-> nodes[ts[i]].name]

\* C16: once analyze_dependencies has run, the edges that leave a node
\* correspond one to one, in order, to the entries of its dependency list that
\* equal the name of some node: repeated names each have their edge, an
\* unresolved name has none, and each target bears the name of its entry.
C16_OneEdgePerResolvedEntry ==
    pc \in {"assemble", "done"} =>
        /\ \A i \in DOMAIN edges : edges[i].from \in DOMAIN nodes
        /\ \A s \in DOMAIN nodes :
             TargetNames(s) =
                SelectSeq(nodes[s].dependencies, LAMBDA d : Resolvable(d))

\* C16 witness: analyze_dependencies has run on a node that lists a
\* resolvable name twice and an unresolved name as well.
C16_Witness ==
    /\ pc \in {"assemble", "done"}
    /\ \E s \in DOMAIN nodes :
         LET deps == nodes[s].dependencies
         IN /\ \E i, j \in DOMAIN deps : i < j /\ deps[i] = deps[j] /\ Resolvable(deps[i])
            /\ \E i \in DOMAIN deps : ~Resolvable(deps[i])
            /\ Len(Targets(edges, s)) >= 2

\* C17 (as claimed): in a returned Snapshot every node's dependents list
\* holds the ids of the nodes with an edge to it, and its dependency_count and
\* dependent_count are its numbers of outgoing and incoming edges.
C17_ReverseEdgesPopulated ==
    Returned =>
        \A id \in DOMAIN Snapshot.nodes :
            LET n == Snapshot.nodes[id]
                out == {i \in DOMAIN Snapshot.edges : Snapshot.edges[i].from = id}
                inc == {i \in DOMAIN Snapshot.edges : Snapshot.edges[i].to = id}
            IN /\ Range(n.dependents) = {Snapshot.edges[i].from : i \in inc}
               /\ n.metrics.dependency_count = Cardinality(out)
               /\ n.metrics.dependent_count = Cardinality(inc)

\* C14: when no file is selected, scan returns Ok with zero totals, no edge,
\* no cycle and every whole-graph metric at zero.
C14_NothingSelectedAllZero ==
    (Done /\ find_rust_files(config, dir) = <<>>) =>
        /\ result.tag = "Ok"
        /\ Snapshot.total_modules = 0
        /\ Snapshot.total_lines = 0
        /\ Snapshot.average_complexity = <<0, 1>>
        /\ Snapshot.edges = <<>>
        /\ Snapshot.circular_dependencies = <<>>
        /\ Snapshot.metrics.total_functions = 0
        /\ Snapshot.metrics.total_structs = 0
        /\ Snapshot.metrics.total_enums = 0
        /\ Snapshot.metrics.total_traits = 0
        /\ Snapshot.metrics.max_complexity = 0
        /\ Snapshot.metrics.min_complexity = 0
        /\ RatEq(Snapshot.metrics.dependency_density, <<0, 1>>)
        /\ Snapshot.metrics.modularity_score.closed
        /\ RatEq(Snapshot.metrics.modularity_score.value, <<0, 1>>)
        /\ RatEq(Snapshot.metrics.maintainability_index, <<0, 1>>)

\* C14 witness: a scan has returned for a directory that holds source files
\* none of which is selected.
C14_Witness ==
    /\ Returned
    /\ dir.rootOk
    /\ \E i \in DOMAIN dir.entries : Extension(dir.entries[i].path) = RS
    /\ find_rust_files(config, dir) = <<>>

\* C15: in a Snapshot with at least one node, maintainability_index lies in
\* [0, 1] and is the average of min(1, 1000 / max(total_lines, 1)) and
\* min(1, 10 / max(average_complexity, 1)).
C15_MaintainabilityBounds ==
    (Returned /\ Snapshot.total_modules >= 1) =>
        LET mi == Snapshot.metrics.maintainability_index
            lf == RatMin(<<1, 1>>, RatDiv(<<1000, 1>>, RatMax(<<Snapshot.total_lines, 1>>, <<1, 1>>)))
            cf == RatMin(<<1, 1>>, RatDiv(<<10, 1>>, RatMax(Snapshot.average_complexity, <<1, 1>>)))
        IN /\ mi[2] > 0
           /\ RatLe(<<0, 1>>, mi)
           /\ RatLe(mi, <<1, 1>>)
           /\ RatEq(mi, RatDiv(RatAdd(lf, cf), <<2, 1>>))

\* C15 witness: a Snapshot whose nodes have no code line at all, and one
\* with more than 1000 lines and an average complexity above 10, where both
\* factors are below 1.
C15_Witness ==
    /\ Returned
    /\ Snapshot.total_modules >= 2
    /\ Snapshot.total_lines > 1000
    /\ \E id \in DOMAIN Snapshot.nodes : Snapshot.nodes[id].metrics.lines_of_code = 0
    /\ ~RatLe(Snapshot.average_complexity, <<10, 1>>)
    /\ ~RatLe(<<1, 2>>, Snapshot.metrics.maintainability_index)

\* The clients inside a reading handler's guarded section, and those inside
\* a refresh's: from the guard being returned until it is dropped.
Reading == {p \in DOMAIN req : req[p].at \in {"locked", "returned"} /\ ~IsRefresh(req[p].handler)}
Refreshing ==
    {p \in DOMAIN req : req[p].at \in {"locked", "scanned", "returned"} /\ IsRefresh(req[p].handler)}

\* C18: in every interleaving at most one refresh is inside its critical
\* section, and while one is (from before its scan until after it has
\* replaced the cache) no reader is inside a read section.
C18_SingleWriterMultipleReaders ==
    /\ Cardinality(Refreshing) <= 1
    /\ Refreshing # {} => Reading = {}

\* C18 witness: two readers overlap while a refresh waits for the lock.
C18_Witness ==
    /\ Cardinality(Reading) >= 2
    /\ \E p \in DOMAIN req : req[p].at = "waiting" /\ IsRefresh(req[p].handler)

\* Client p's refresh() returns Ok in this step.
RefreshReturnsOk(p) == req[p].at = "scanned" /\ req'[p].at = "returned"

\* Client p's get_architecture() returns in this step.
GetArchitectureReturns(p) ==
    /\ req[p].at = "locked"
    /\ req'[p].at = "returned"
    /\ ~IsRefresh(req[p].handler)
    /\ req[p].handler # "config_handler"

\* C19: when refresh() returns Ok(s) the cache holds s; a get_architecture()
\* that finds a cached Snapshot returns a copy of it without scanning; the
\* cache changes only when a refresh succeeds; and what a finished request was
\* handed is not changed by later steps.
C19_RefreshReplacesCache ==
    [][/\ \A p \in Clients :
            /\ RefreshReturnsOk(p) => cache' = Some(req[p].got.snap)
            /\ (GetArchitectureReturns(p) /\ cache.some) =>
                    /\ req'[p].got = [tag |-> "Ok", snap |-> cache.value]
                    /\ scans' = scans
            /\ req[p].at = "done" => req'[p] = req[p]
       /\ cache' # cache => \E p \in Clients : RefreshReturnsOk(p)]_vars

\* C19 witness: a refresh has returned Ok(s), the cache holds s, and a
\* request served after it was handed s while an earlier one keeps the
\* Snapshot of its own scan.
C19_Witness ==
    \E p, q, r \in DOMAIN req :
        /\ req[q].at = "done" /\ IsRefresh(req[q].handler) /\ req[q].got.tag = "Ok"
        /\ cache = Some(req[q].got.snap)
        /\ req[p].at = "done" /\ ~IsRefresh(req[p].handler)
        /\ req[p].got = req[q].got
        /\ req[r].at = "done" /\ req[r].got.tag = "Ok"
        /\ req[r].got.snap < req[q].got.snap
        /\ scans = req[q].got.snap

\* The node facts the current directory and configuration determine: one
\* per selected file.
NodesOfDir ==
    {[name |-> extract_module_name(dir.entries[i]),
      path |-> dir.entries[i].path,
      kind |-> determine_module_type(dir.entries[i]),
      metrics |-> calculate_node_metrics(dir.entries[i])] :
        i \in Range(find_rust_files(config, dir))}

\* The dependency entries of the current directory that name a module of it.
ResolvableEntriesOfDir ==
    UNION {{<<i, k>> : k \in {k \in DOMAIN extract_dependencies(dir.entries[i]) :
                \E j \in Range(find_rust_files(config, dir)) :
                    extract_module_name(dir.entries[j])
                        = extract_dependencies(dir.entries[i])[k]}} :
           i \in Range(find_rust_files(config, dir))}

\* C20: what a scan returns is determined by the configuration and the
\* current directory contents, whatever was scanned before, and
\* scan_incremental(last_scan) returns what a full scan returns, for
\* last_scan = None and for last_scan = an earlier Snapshot.
C20_ScansIndependent ==
    Returned =>
        /\ NodeView(Snapshot) = NodesOfDir
        /\ Snapshot.total_modules = Len(find_rust_files(config, dir))
        /\ Len(Snapshot.edges) = Cardinality(ResolvableEntriesOfDir)

\* C20 witness: scan_incremental has returned after being given an earlier
\* Snapshot that holds a file the directory has lost since.
C20_Witness ==
    /\ Returned
    /\ prev # <<>>
    /\ prev[1].tag = "Ok"
    /\ prev[1].map.total_modules > Len(dir.entries)
    /\ Snapshot.total_modules >= 1

(***************************************************************************)
(* Directories whose files differ in kind: the path carries at most        *)
(* MaxMarkers of the patterns determine_module_type looks for, the content *)
(* any set of the words it looks for.                                      *)
(***************************************************************************)
MaxMarkers == 2

\* The first pattern of each path check, in the order of the checks.
FirstMarkers ==
    << <<"t","e","s","t">>, <<"e","x","a","m","p","l","e">>, <<"b","e","n","c","h">>,
       <<"c","o","n","f","i","g">>, <<"a","p","i">>, <<"d","b">>, <<"n","e","t">>,
       <<"a","u","t","h">>, <<"l","o","g">>, <<"m","o","n","i","t","o","r">> >>

\* The second pattern of a check where it is not contained in the first,
\* and an upper-case spelling.
OtherMarkers ==
    << <<"s","e","t","t","i","n","g","s">>, <<"r","o","u","t","e","s">>,
       <<"d","a","t","a","b","a","s","e">>, <<"s","e","c","u","r","i","t","y">>,
       <<"m","e","t","r","i","c","s">>, <<"A","P","I">> >>

PathMarkers == FirstMarkers \o OtherMarkers

ContentWords == {"async", "tokio", "serde", "Serialize", "trait", "struct", "impl"}

\* The markers of S from the i-th on, each followed by '_'.
RECURSIVE JoinMarkers(_, _)
JoinMarkers(i, S) ==
    IF i > Len(PathMarkers) THEN <<>>
    ELSE (IF i \in S THEN PathMarkers[i] \o <<"_">> ELSE <<>>) \o JoinMarkers(i + 1, S)

\* prefix ++ markers ++ "x.rs"
MarkerPath(prefix, S) == prefix \o JoinMarkers(1, S) \o <<"x", ".">> \o RS

\* Any one pattern, or at most MaxMarkers first patterns together.
MarkerSets ==
    {S \in SUBSET DOMAIN FirstMarkers : Cardinality(S) <= MaxMarkers}
        \cup {{i} : i \in DOMAIN PathMarkers}

KindEntry(path, words, uses) ==
    [path |-> path, size |-> 1, readable |-> TRUE,
     metaSelOk |-> TRUE, metaParseOk |-> TRUE,
     uses |-> uses, mods |-> <<>>, words |-> words, loc |-> 1,
     counts |-> [NoLiterals EXCEPT !["async"] = IF "async" \in words THEN 1 ELSE 0]]

\* One file of each kind determine_module_type can return.
KindReps ==
    {<<{i}, {}>> : i \in DOMAIN PathMarkers}
        \cup {<<{}, w>> : w \in {{}, {"async", "tokio"}, {"serde", "Serialize"},
                                 {"trait", "async"}, {"struct", "impl"}}}

\* Either one file with any markers and words, or a source file with n
\* references to a target file, each of any kind.
InitKinds ==
    /\ \/ \E S \in MarkerSets : \E w \in SUBSET ContentWords :
            dir = [rootOk |-> TRUE,
                   entries |-> <<KindEntry(MarkerPath(<<>>, S), w, <<>>)>>]
       \/ \E s \in KindReps : \E t \in KindReps : \E n \in 1..MaxRefs :
            LET tp == MarkerPath(<<"t", "_">>, t[1])
            IN dir = [rootOk |-> TRUE,
                      entries |-> <<KindEntry(MarkerPath(<<"s", "_">>, s[1]), s[2],
                                              [j \in 1..n |-> FileStem(tp)]),
                                    KindEntry(tp, t[2], <<>>)>>]
    /\ config = PlainConfig
    /\ InitScan
    /\ ServeIdle
    /\ CalcIdle

\* One scan of a directory whose files differ in kind.
SpecKinds == InitKinds /\ [][Next]_vars

\* The node an edge end names.
NodeOfId(id) == CHOOSE n \in Range(nodes) : n.id = id

\* C21: every edge's strength lies in [0.0, 1.0] and is exactly 1.0 (10
\* tenths), whatever the number of declared dependencies of its source and
\* the kinds of its source and target.
C21_StrengthIsOne ==
    Done /\ result.tag = "Ok" =>
        \A i \in DOMAIN result.map.edges :
            /\ result.map.edges[i].strength >= 0
            /\ result.map.edges[i].strength <= 10
            /\ result.map.edges[i].strength = 10

\* An edge from an API source with several declared dependencies to a Core
\* target: every bonus of the formula applies.
C21_Witness ==
    /\ Done /\ result.tag = "Ok"
    /\ \E i \in DOMAIN result.map.edges :
          LET e == result.map.edges[i]
          IN /\ NodeOfId(e.from).module_type = "API"
             /\ NodeOfId(e.to).module_type = "Core"
             /\ Len(NodeOfId(e.from).dependencies) = MaxRefs
             /\ e.strength = 10

UsesPairs ==
    {<<"API", "Core">>, <<"Core", "DataProcessing">>, <<"Execution", "Core">>,
     <<"Integration", "API">>}

\* C22: an edge is Uses exactly when its (source kind, target kind) is
\* API->Core, Core->DataProcessing, Execution->Core, Integration->API or its
\* source is Testing; every other edge is DependsOn, and no edge has another
\* relationship value.
C22_RelationshipTable ==
    Done /\ result.tag = "Ok" =>
        \A i \in DOMAIN result.map.edges :
            LET e == result.map.edges[i]
                s == NodeOfId(e.from).module_type
                t == NodeOfId(e.to).module_type
            IN /\ e.relationship \in {"Uses", "DependsOn"}
               /\ e.relationship = "Uses" <=> (<<s, t>> \in UsesPairs \/ s = "Testing")

\* A Testing source whose target pair is not in the table, so that only the
\* Testing rule makes the edge Uses.
C22_Witness ==
    /\ Done /\ result.tag = "Ok"
    /\ \E i \in DOMAIN result.map.edges :
          LET e == result.map.edges[i]
          IN /\ NodeOfId(e.from).module_type = "Testing"
             /\ NodeOfId(e.to).module_type = "Database"
             /\ e.relationship = "Uses"

\* The fixed order of the path checks: the patterns of each check and its kind.
PathOrder ==
    << <<{<<"t","e","s","t">>}, "Testing">>,
       <<{<<"e","x","a","m","p","l","e">>}, "Utilities">>,
       <<{<<"b","e","n","c","h">>}, "Performance">>,
       <<{<<"c","o","n","f","i","g">>, <<"s","e","t","t","i","n","g","s">>}, "Configuration">>,
       <<{<<"a","p","i">>, <<"r","o","u","t","e","s">>}, "API">>,
       <<{<<"d","b">>, <<"d","a","t","a","b","a","s","e">>}, "Database">>,
       <<{<<"n","e","t","w","o","r","k">>, <<"n","e","t">>}, "Network">>,
       <<{<<"a","u","t","h">>, <<"s","e","c","u","r","i","t","y">>}, "Security">>,
       <<{<<"l","o","g">>}, "Logging">>,
       <<{<<"m","o","n","i","t","o","r">>, <<"m","e","t","r","i","c","s">>}, "Monitoring">> >>

\* The fixed order of the content checks: the words of each check and its kind.
ContentOrder ==
    << <<{"async", "tokio"}, "Execution">>, <<{"serde", "Serialize"}, "DataProcessing">>,
       <<{"trait", "async"}, "Integration">>, <<{"struct", "impl"}, "Core">> >>

PathHits(path) == {k \in DOMAIN PathOrder : HasAny(ToLower(path), PathOrder[k][1])}
ContentHits(words) == {k \in DOMAIN ContentOrder : ContentOrder[k][1] \subseteq words}
Least(S) == CHOOSE k \in S : \A j \in S : k <= j

FirstMatchKind(path, words) ==
    IF PathHits(path) # {} THEN PathOrder[Least(PathHits(path))][2]
    ELSE IF ContentHits(words) # {} THEN ContentOrder[Least(ContentHits(words))][2]
    ELSE "Core"

EntryOfPath(path) == CHOOSE e \in Range(dir.entries) : e.path = path

\* C23: the kind of every node is the kind of the first check that matches,
\* the path checks (test, example, bench, config, api, db, network, auth,
\* log, monitor) before the content checks (Execution, DataProcessing,
\* Integration, Core), and Core when none matches.
C23_KindByFirstMatch ==
    \A i \in DOMAIN nodes :
        nodes[i].module_type = FirstMatchKind(nodes[i].file_path, EntryOfPath(nodes[i].file_path).words)

\* A node whose path carries both 'test' and 'api' and whose content carries
\* the Execution words is Testing.
C23_Witness ==
    /\ \E i \in DOMAIN nodes :
          /\ {1, 5} \subseteq PathHits(nodes[i].file_path)
          /\ 1 \in ContentHits(EntryOfPath(nodes[i].file_path).words)
          /\ nodes[i].module_type = "Testing"

(***************************************************************************)
(* MetricsCalculator::calculate_cognitive_complexity, one line of the      *)
(* content per step.  A line is known by whether it contains '{', whether  *)
(* it contains '}', and the control keyword its trimmed text starts with   *)
(* ("" for none).  The score is kept in tenths.                            *)
(***************************************************************************)
MaxLines == 2

I32Max == 2147483647
I32Min == (-I32Max) - 1

Controls == {"", "if ", "match ", "for ", "while ", "loop "}
LineKinds == [open : BOOLEAN, close : BOOLEAN, control : Controls]

\* i32::saturating_sub: the difference, saturated at the bounds of i32.
saturating_sub(a, b) == IF a - b < I32Min THEN I32Min ELSE a - b

\* What a line starting with the control keyword adds besides the nesting level.
ControlBase(control) ==
    CASE control = "if " -> 10
      [] control = "match " -> 20
      [] control \in {"for ", "while "} -> 10
      [] control = "loop " -> 15
      [] OTHER -> 0

\* The nesting level after the braces of the line.
NestingAfter(level, line) ==
    LET opened == IF line.open THEN level + 1 ELSE level
    IN IF line.close THEN saturating_sub(opened, 1) ELSE opened

\* The body of `for line in content.lines()`.
CognitiveLine ==
    /\ content_lines # <<>>
    /\ LET line == Head(content_lines)
           level == NestingAfter(nesting_level, line)
       IN /\ nesting_level' = level
          /\ complexity' = IF line.control = "" THEN complexity
                           ELSE complexity + ControlBase(line.control) + 10 * level
    /\ content_lines' = Tail(content_lines)
    /\ UNCHANGED dependency_metrics
    /\ UNCHANGED scanVars
    /\ UNCHANGED serveVars

NextCognitive == CognitiveLine

InitCognitive ==
    /\ dir = [rootOk |-> TRUE, entries |-> <<>>]
    /\ config = PlainConfig
    /\ InitScan
    /\ ServeIdle
    /\ content_lines \in SeqsUpTo(LineKinds, MaxLines)
    /\ nesting_level = 0
    /\ complexity = 0
    /\ dependency_metrics = NotCalled

\* calculate_cognitive_complexity on every content of at most MaxLines lines.
SpecCognitive == InitCognitive /\ [][NextCognitive]_vars

\* C24: in the cognitive-complexity scan the nesting counter is never
\* negative (a line with a closing brace seen at 0 leaves it at 0), so the
\* nesting term added for a control line is never below 0.
C24_NestingNeverNegative == nesting_level >= 0

(***************************************************************************)
(* The cycle search on the edge lists of scanned directories.              *)
(***************************************************************************)
Analyzed == pc \in {"assemble", "done"}

SelfLoop(es) == \E i \in DOMAIN es : es[i].from = es[i].to

\* C25: for every edge list and every order of the DFS roots,
\* find_circular_dependencies returns a non-empty list exactly when the
\* directed graph of the edges has a directed cycle, a self-loop included.
C25_CycleReportedIffCycleExists ==
    Analyzed =>
        /\ (circular_deps # <<>>) <=> HasDirectedCycle(edges)
        /\ \A roots \in Perms(GraphKeys(edges)) :
              (find_circular_dependencies(edges, roots) # <<>>) <=> HasDirectedCycle(edges)

\* A self-loop, the only cycle of the edge list, is reported.
C25_Witness ==
    /\ Analyzed
    /\ SelfLoop(edges)
    /\ ~HasDirectedCycle(SelectSeq(edges, LAMBDA e : e.from # e.to))
    /\ circular_deps # <<>>

NoRepeat(s) == \A i, j \in DOMAIN s : s[i] = s[j] => i = j

SimpleClosedPath(es, cycle) ==
    /\ cycle # <<>>
    /\ NoRepeat(cycle)
    /\ \E i \in DOMAIN es : es[i].from = cycle[Len(cycle)] /\ es[i].to = cycle[1]

\* C26: every cycle find_circular_dependencies reports is non-empty, names
\* no node id twice, and the edge list has an edge from its last node back
\* to its first node.
C26_ReportedCyclesAreSimpleClosedPaths ==
    Analyzed =>
        /\ \A c \in DOMAIN circular_deps : SimpleClosedPath(edges, circular_deps[c])
        /\ \A roots \in Perms(GraphKeys(edges)) :
              LET cycles == find_circular_dependencies(edges, roots)
              IN \A c \in DOMAIN cycles : SimpleClosedPath(edges, cycles[c])

\* A cycle is reported that starts below the root of its search: the path
\* had a tail that the report cut off.
C26_Witness ==
    /\ Analyzed
    /\ \E roots \in Perms(GraphKeys(edges)) :
          LET st == DfsRun(edges, roots)
          IN \E c \in DOMAIN st.cycles :
                /\ Len(st.cycles[c]) >= 2
                /\ st.cycles[c][1] # st.entered[1]
                /\ st.entered[1] \notin Range(st.cycles[c])
                /\ \E i \in DOMAIN edges :
                      edges[i].from = st.entered[1] /\ edges[i].to = st.cycles[c][1]

\* C27: within one call of analyze_dependencies every occurrence of one
\* dependency string resolves to the same node id, also when several nodes
\* share that name: all edges whose targets bear one name point to one node.
C27_NameResolvesToOneNode ==
    Analyzed =>
        \A i, j \in DOMAIN edges :
            NodeOfId(edges[i].to).name = NodeOfId(edges[j].to).name
                => edges[i].to = edges[j].to

\* Two nodes share a name and two different source nodes reference it.
C27_Witness ==
    /\ Analyzed
    /\ \E i, j \in DOMAIN edges :
          /\ edges[i].from # edges[j].from
          /\ edges[i].to = edges[j].to
          /\ \E k \in DOMAIN nodes :
                /\ nodes[k].id # edges[i].to
                /\ nodes[k].name = NodeOfId(edges[i].to).name

\* C29: the search of find_circular_dependencies ends on every edge list,
\* with cycles, self-loops and repeated edges: every node is entered at most
\* once and at the end the recursion stack and the path are empty.
C29_SearchEntersOnceAndUnwinds ==
    Analyzed =>
        \A roots \in Perms(GraphKeys(edges)) :
            LET st == DfsRun(edges, roots)
            IN /\ NoRepeat(st.entered)
               /\ st.rec_stack = {}
               /\ st.path = <<>>

\* The search ran on a list with a self-loop, a repeated edge and a cycle
\* through two nodes, and entered every node that has an edge.
C29_Witness ==
    /\ Analyzed
    /\ SelfLoop(edges)
    /\ \E i, j \in DOMAIN edges :
          i # j /\ edges[i].from = edges[j].from /\ edges[i].to = edges[j].to
    /\ \E i, j \in DOMAIN edges :
          edges[i].from # edges[i].to /\ edges[j].from = edges[i].to /\ edges[j].to = edges[i].from
    /\ \A roots \in Perms(GraphKeys(edges)) :
          Range(DfsRun(edges, roots).entered)
              = GraphKeys(edges) \cup {edges[i].to : i \in DOMAIN edges}

\* Client p is in a refresh whose scan failed and has not left the handler.
FailedRefresh(p) ==
    /\ IsRefresh(req[p].handler)
    /\ req[p].at \in {"scanned", "returned"}
    /\ req[p].got.tag = "Err"

\* C28: when the scan inside refresh fails, refresh returns the error and
\* the cache stays as it was: a Snapshot cached before is still there for
\* get_architecture, and an empty cache stays empty.
C28_FailedRefreshKeepsCache ==
    [][\A p \in Clients :
          /\ (IsRefresh(req[p].handler) /\ req[p].at = "locked" /\ req'[p].got.tag = "Err")
                => (req'[p].at = "returned" /\ cache' = cache)
          /\ FailedRefresh(p) => cache' = cache]_vars

\* A refresh has failed while a Snapshot of an earlier scan is cached.
C28_Witness ==
    \E p \in Clients : FailedRefresh(p) /\ req[p].at = "returned" /\ cache.some

\* A refresh has failed while the cache is empty.
C28_WitnessEmpty ==
    \E p \in Clients : FailedRefresh(p) /\ req[p].at = "returned" /\ ~cache.some

(***************************************************************************)
(* DependencyAnalyzer::calculate_dependency_metrics, called by a user of   *)
(* the library on the nodes and edges of a finished scan.  The function    *)
(* computes nodes.len() - 1 on usize: for an empty map the subtraction     *)
(* overflows, which panics in a build with overflow checks (the default of *)
(* the dev profile) and wraps to usize::MAX in a build without (the        *)
(* default of the release profile).                                        *)
(***************************************************************************)
Panicked == [tag |-> "Panic"]

\* nodes.len() * (nodes.len() - 1) on usize; 0 * usize::MAX is 0.
max_possible_edges(len, overflow_checks) ==
    IF len > 0 THEN [panic |-> FALSE, value |-> len * (len - 1)]
    ELSE IF overflow_checks THEN [panic |-> TRUE, value |-> 0]
    ELSE [panic |-> FALSE, value |-> 0]

\* node_connections: the number of edge ends at each id.
ConnectionCount(es, id) ==
    Cardinality({i \in DOMAIN es : es[i].from = id})
        + Cardinality({i \in DOMAIN es : es[i].to = id})

\* What max_by_key over the HashMap node_connections can return: an id of
\* greatest count (which one depends on the iteration order), None when
\* there is no edge.
MostConnectedChoices(es) ==
    LET ids == {es[i].from : i \in DOMAIN es} \cup {es[i].to : i \in DOMAIN es}
    IN IF ids = {} THEN {None}
       ELSE {Some(id) : id \in {x \in ids : \A y \in ids :
                                   ConnectionCount(es, y) <= ConnectionCount(es, x)}}

\* calculate_dependency_metrics
calculate_dependency_metrics(ns, es, roots, overflow_checks, most_connected) ==
    LET len == Cardinality(DOMAIN ns)
        total_dependencies == Len(es)
        max_edges == max_possible_edges(len, overflow_checks)
    IN IF max_edges.panic THEN Panicked
       ELSE [tag |-> "Ok",
             total_dependencies |-> total_dependencies,
             circular_dependencies |-> Len(find_circular_dependencies(es, roots)),
             dependency_density |->
                 IF max_edges.value > 0 THEN <<total_dependencies, max_edges.value>>
                 ELSE <<0, 1>>,
             average_dependencies_per_node |->
                 IF len # 0 THEN <<total_dependencies, len>> ELSE <<0, 1>>,
             most_connected_node |-> most_connected]

\* A call of calculate_dependency_metrics on the result of the scan.
CalculateDependencyMetrics ==
    /\ pc = "done"
    /\ result.tag = "Ok"
    /\ dependency_metrics = NotCalled
    /\ \E overflow_checks \in BOOLEAN :
         \E roots \in Perms(GraphKeys(edges)) :
            \E most_connected \in MostConnectedChoices(edges) :
               dependency_metrics' =
                   calculate_dependency_metrics(nodes, edges, roots, overflow_checks,
                                                most_connected)
    /\ UNCHANGED <<content_lines, nesting_level, complexity>>
    /\ UNCHANGED scanVars
    /\ UNCHANGED serveVars

NextDependencyMetrics == Next \/ CalculateDependencyMetrics

\* A scan followed by a call of calculate_dependency_metrics.
SpecDependencyMetrics == InitRescan /\ [][NextDependencyMetrics]_vars

\* C30: calculate_dependency_metrics completes for every node count, 0
\* included: with an empty node map the product N*(N-1) counts as 0 and the
\* result has dependency_density 0.0 and average_dependencies_per_node 0.0.
C30_DependencyMetricsCompletes ==
    dependency_metrics # NotCalled =>
        /\ dependency_metrics.tag = "Ok"
        /\ DOMAIN nodes = {} =>
              /\ dependency_metrics.dependency_density = <<0, 1>>
              /\ dependency_metrics.average_dependencies_per_node = <<0, 1>>
=============================================================================
